---- MODULE Spec2Model ----
(***************************************************************************)
(* A model of exporter.py (BookStack exporter): the Node hierarchy, the    *)
(* staleness check, the API rate limiter, the paginated listing, the       *)
(* catalog builder and the export driver.                                  *)
(*                                                                         *)
(* Time is counted in whole seconds.  A naive datetime is modelled by the  *)
(* number its wall-clock fields denote; an instant by its POSIX seconds.   *)
(* Python's None is modelled by 0 where a Node reference is expected       *)
(* (Node references are positions 1.. in the heap `nodes`).                *)
(***************************************************************************)
EXTENDS Integers, Sequences, FiniteSets, TLC

VARIABLES
    \* ---- the heap of Node objects and the last call's return value
    nodes,              \* Seq of Node objects, in order of construction
    ret,                \* record of the last pure call made (or NoRet)
    \* ---- environment: filesystem, clock, time zone, configuration
    fs,                 \* function: existing file path -> [mtime, data]
    now,                \* the clock: time() in seconds
    utc_offset,         \* local wall clock minus UTC wall clock
    SKIP_TIMESTAMPS,    \* args.force_update_files
    \* ---- ApiRateLimiter
    rate_limit,         \* ApiRateLimiter.__rate_limit
    requests_times,     \* ApiRateLimiter.__requests_times
    sent,               \* times at which requests really left (history)
    calls,              \* history of limit_rate_request calls
    \* ---- api_get_listing
    l_pc,               \* "loop", "returned" or "failed"
    total,              \* the local `total`
    result,             \* the local `result`
    requests,           \* the requests made, in order (history)
    responses,          \* the responses received, in order (history)
    truncated,          \* the two histories above stopped recording
    \* ---- the script: configuration, catalogs, export driver
    args,               \* the parsed command line (the fields used here)
    HEADERS,            \* dict, as a Seq of <<key, value>> in insertion order
    HEADERS_NO_TOKEN,   \* dict
    pc,                 \* which loop of the script is running
    shelves,            \* dict id -> Node
    books,              \* dict id -> Node
    chapters,           \* dict id -> Node
    pages,              \* dict id -> Node
    pages_not_in_chapter,   \* dict id -> Node
    attachments,        \* dict id -> Node
    images,             \* dict id -> AttachedFile
    seen,               \* the listing entries handled so far (history)
    lvl_i,              \* position of the level loop in LEVEL_CHOICE
    files,              \* the list export_doc / export_attachments walks
    doc_i,              \* position in that list
    EXPORT_PAGES_NOT_IN_CHAPTER,
    passes,             \* the export_doc calls made (history)
    http,               \* the HTTP requests made while exporting (history)
    dirs,               \* directories made by make_dir
    exit_status,        \* "running", or how the process ended
    runs                \* the earlier runs of the script (history)

nodeVars    == <<nodes, ret>>
envVars     == <<fs, now, utc_offset, SKIP_TIMESTAMPS>>
limiterVars == <<rate_limit, requests_times, sent, calls>>
listingVars == <<l_pc, total, result, requests, responses, truncated>>
configVars  == <<args, HEADERS, HEADERS_NO_TOKEN, runs>>
catalogVars == <<shelves, books, chapters, pages, pages_not_in_chapter,
                 attachments, images, seen>>
driverVars  == <<lvl_i, files, doc_i, EXPORT_PAGES_NOT_IN_CHAPTER, passes,
                 http, dirs>>
scriptVars  == <<configVars, pc, catalogVars, driverVars>>
vars == <<nodes, ret, fs, now, utc_offset, SKIP_TIMESTAMPS,
          rate_limit, requests_times, sent, calls,
          l_pc, total, result, requests, responses, truncated,
          args, HEADERS, HEADERS_NO_TOKEN, pc,
          shelves, books, chapters, pages, pages_not_in_chapter,
          attachments, images, seen,
          lvl_i, files, doc_i, EXPORT_PAGES_NOT_IN_CHAPTER, passes, http,
          dirs, exit_status, runs>>

\* what the Node operations, the limiter and the listing leave alone
outsideTree    == <<limiterVars, listingVars, scriptVars, exit_status>>
outsideLimiter == <<nodeVars, fs, utc_offset, SKIP_TIMESTAMPS, listingVars,
                    scriptVars>>
outsideListing == <<nodeVars, envVars, limiterVars, scriptVars>>
\* what the catalog builder leaves alone
outsideBuilder == <<ret, envVars, limiterVars, listingVars, configVars,
                    driverVars>>

----------------------------------------------------------------------------
(* Bounds and input sets                                                   *)

MaxNodes == 3                  \* Node objects constructed in one behaviour
MaxChildren == 3               \* children-list entries in the whole heap
MaxLimit == 2                  \* largest configured rate limit
MaxCalls == 3                  \* api_get_bytes calls in one behaviour
MaxClock == 61                 \* the clock is not advanced by hand past this
MaxOversleep == 1              \* seconds sleep() may return late
TickSteps == {1, 30}           \* seconds that pass between two calls
MaxTotal == 3                  \* largest total a response declares
MaxPage == 2                   \* most items in one response
MaxItems == 3                  \* most items accumulated by one listing
MaxLog == 3                    \* requests and responses kept in the history
Items == {"x", "y"}            \* listing entries
MaxLevels == 2                 \* levels given with --level
MaxHeaders == 2                \* headers given with --additional-headers
MaxRuns == 1                   \* runs of the script after the first
ShelfIds == {1}                \* ids the remote listings may hold
BookIds == {1, 2}
ChapterIds == {1}
PageIds == {1, 2}
AttachmentIds == {1}
ImageIds == {1}
EntryNames == {<<"n", "/">>}   \* names of the listing entries
EntryTimes == {1}              \* updated_at of the listing entries
Times == 0 .. 2                \* instants used for edits and file writes
TzOffsets == {0, 1}            \* offsets of the local zone from UTC
NoRet == [op |-> "none"]
None == 0

Range(s) == {s[i] : i \in 1 .. Len(s)}

----------------------------------------------------------------------------
(* FORBIDDEN_CHARS and name sanitization (Node.__init__)                   *)

FORBIDDEN_CHARS == {"/", "#"}

\* str.replace(char, "_") for every forbidden char; a name is a Seq of chars
Sanitize(name) ==
    [i \in 1 .. Len(name) |->
        IF name[i] \in FORBIDDEN_CHARS THEN "_" ELSE name[i]]

----------------------------------------------------------------------------
(* class Node                                                              *)

\* the fields AttachedFile adds, for a Node that is no AttachedFile
NotAttached == [parent_id |-> 0, url |-> "", path |-> << >>]

\* Node.add_child on heap h: parent p gets child appended, unconditionally
add_child(h, p, child) ==
    [h EXCEPT ![p].children = Append(@, child)]

\* Node.__init__: the new object is at position Len(h) + 1
NodeInit(h, name, parent, node_id, last_edit_timestamp) ==
    LET self == Len(h) + 1
        obj  == [name |-> Sanitize(name),
                 children |-> << >>,
                 parent |-> parent,
                 last_edit_timestamp |-> last_edit_timestamp,
                 node_id |-> node_id,
                 attached |-> NotAttached]
        h1   == Append(h, obj)
    IN  IF parent # None THEN add_child(h1, parent, self) ELSE h1

RECURSIVE TotalChildrenFrom(_, _)
TotalChildrenFrom(h, i) ==
    IF i > Len(h) THEN 0
    ELSE Len(h[i].children) + TotalChildrenFrom(h, i + 1)

\* the number of children-list entries in the heap
TotalChildren(h) == TotalChildrenFrom(h, 1)

\* Node.set_parent
set_parent(h, self, parent) ==
    add_child([h EXCEPT ![self].parent = parent], parent, self)

RECURSIVE changed_since(_, _, _)
RECURSIVE children_changed_since(_, _, _, _)

\* the loop `for child in self.__children: result += child.changed_since(..)`
\* from the i-th child on
children_changed_since(h, kids, i, timestamp) ==
    IF i > Len(kids) THEN 0
    ELSE changed_since(h, kids[i], timestamp)
         + children_changed_since(h, kids, i + 1, timestamp)

changed_since_ge(h, self, timestamp) ==
    (IF h[self].last_edit_timestamp >= timestamp THEN 1 ELSE 0)
    + children_changed_since(h, h[self].children, 1, timestamp)

\* Node.changed_since
changed_since(h, self, timestamp) ==
    (IF h[self].last_edit_timestamp > timestamp THEN 1 ELSE 0)
    + children_changed_since(h, h[self].children, 1, timestamp)

----------------------------------------------------------------------------
(* check_if_update_needed                                                  *)

\* datetime.fromtimestamp(os.path.getmtime(p)): POSIX seconds to the naive
\* LOCAL wall clock
fromtimestamp(posix, offset) == posix + offset

\* api_timestamp_string_to_datetime: strptime with a literal "Z"; the naive
\* result keeps the wall-clock fields of the string, which the API gives
\* in UTC.  A timestamp string is [wall |-> fields, zone |-> "Z"].
api_timestamp_string_to_datetime(timestamp) == timestamp.wall

ApiTimestamp(instant) == [wall |-> instant, zone |-> "Z"]

check_if_update_needed(disk, skip, offset, file_path, h, document) ==
    IF skip THEN TRUE
    ELSE IF file_path \notin DOMAIN disk THEN TRUE
    ELSE LET local_last_edit == fromtimestamp(disk[file_path].mtime, offset)
         IN  changed_since(h, document, local_last_edit) > 0

----------------------------------------------------------------------------
(* Specification SpecTree: trees built by Node construction alone, with    *)
(* changed_since and check_if_update_needed applied to them.               *)

TreeNames == {<<"a", "/">>}
TreePaths == {<< <<"out">>, <<"a", ".", "md">> >>}

LimiterIdle ==
    /\ rate_limit = 1
    /\ requests_times = << >>
    /\ sent = << >>
    /\ calls = << >>

\* the script part of the state, for the specifications of single functions
ScriptIdle ==
    /\ args = [level |-> <<"pages">>]
    /\ HEADERS = << >>
    /\ HEADERS_NO_TOKEN = << >>
    /\ runs = << >>
    /\ pc = "idle"
    /\ shelves = << >> /\ books = << >> /\ chapters = << >>
    /\ pages = << >> /\ pages_not_in_chapter = << >>
    /\ attachments = << >> /\ images = << >>
    /\ seen = << >>
    /\ lvl_i = 0 /\ files = << >> /\ doc_i = 0
    /\ EXPORT_PAGES_NOT_IN_CHAPTER = FALSE
    /\ passes = << >> /\ http = << >> /\ dirs = {}

\* api_get_listing not called
ListingIdle ==
    /\ l_pc = "returned"
    /\ total = 0
    /\ result = << >>
    /\ requests = << >>
    /\ responses = << >>
    /\ truncated = FALSE

InitTree ==
    /\ nodes = << >>
    /\ ret = NoRet
    /\ fs = << >>
    /\ now = 0
    /\ utc_offset \in TzOffsets
    /\ SKIP_TIMESTAMPS \in BOOLEAN
    /\ LimiterIdle
    /\ ListingIdle
    /\ ScriptIdle
    /\ exit_status = "running"

\* Node(name, parent, node_id, last_edit_timestamp)
NewNode ==
    /\ Len(nodes) < MaxNodes
    /\ \E name \in TreeNames, parent \in 0 .. Len(nodes), t \in Times :
           nodes' = NodeInit(nodes, name, parent, Len(nodes) + 1,
                             api_timestamp_string_to_datetime(ApiTimestamp(t)))
    /\ ret' = NoRet
    /\ UNCHANGED <<envVars, outsideTree>>

\* node.changed_since(timestamp)
CallChangedSince ==
    /\ \E n \in 1 .. Len(nodes), t \in Times :
           ret' = [op |-> "changed_since", node |-> n, timestamp |-> t,
                   result |-> changed_since(nodes, n, t)]
    /\ UNCHANGED <<nodes, envVars, outsideTree>>

\* the environment writes (or rewrites) a file at instant t
WriteFile ==
    /\ \E p \in TreePaths, t \in Times :
           fs' = [q \in DOMAIN fs \cup {p} |->
                     IF q = p THEN [mtime |-> t, data |-> "x"] ELSE fs[q]]
    /\ ret' = NoRet
    /\ UNCHANGED <<nodes, now, utc_offset, SKIP_TIMESTAMPS, outsideTree>>

\* check_if_update_needed(file_path, document)
CallCheckIfUpdateNeeded ==
    /\ \E p \in TreePaths, n \in 1 .. Len(nodes) :
           ret' = [op |-> "check_if_update_needed", node |-> n, path |-> p,
                   result |-> check_if_update_needed(
                                  fs, SKIP_TIMESTAMPS, utc_offset, p, nodes, n)]
    /\ UNCHANGED <<nodes, envVars, outsideTree>>

NextTree ==
    \/ NewNode
    \/ CallChangedSince
    \/ WriteFile
    \/ CallCheckIfUpdateNeeded

SpecTree == InitTree /\ [][NextTree]_vars

----------------------------------------------------------------------------
(* Specification SpecNode: any sequence of Node constructions, set_parent  *)
(* calls and add_child calls.                                              *)

\* node.set_parent(parent)
CallSetParent ==
    /\ \E n \in 1 .. Len(nodes), p \in 1 .. Len(nodes) :
           /\ TotalChildren(nodes) < MaxChildren
           /\ nodes' = set_parent(nodes, n, p)
    /\ ret' = NoRet
    /\ UNCHANGED <<envVars, outsideTree>>

\* parent.add_child(child)
CallAddChild ==
    /\ \E p \in 1 .. Len(nodes), c \in 1 .. Len(nodes) :
           /\ TotalChildren(nodes) < MaxChildren
           /\ nodes' = add_child(nodes, p, c)
    /\ ret' = NoRet
    /\ UNCHANGED <<envVars, outsideTree>>

NextNode ==
    \/ NewNode
    \/ CallSetParent
    \/ CallAddChild

SpecNode == InitTree /\ [][NextNode]_vars

----------------------------------------------------------------------------
(* class ApiRateLimiter and api_get_bytes                                  *)

WINDOW == 60

\* lines 226-229: the list after appending current_time and dropping the
\* entries more than 60 s old
recorded_times(times, current_time) ==
    SelectSeq(Append(times, current_time),
              LAMBDA x : current_time - x <= WINDOW)

limit_reached_ge(times, limit) == Len(times) >= limit

\* line 232: the test that makes the call sleep
limit_reached(times, limit) == Len(times) > limit

\* line 233
wait_time(times, current_time) == times[1] + WINDOW - current_time

\* api_get_bytes, as far as the limiter and the process are concerned:
\* limit_rate_request() (record, prune, maybe sleep), then urlopen sends the
\* request; a 403 answer exits.  sleep() lasts at least the time asked for;
\* a negative argument raises ValueError before anything is sent.
ApiGetBytes ==
    /\ exit_status = "running"
    /\ Len(calls) < MaxCalls
    /\ LET current_time == now
           times   == recorded_times(requests_times, current_time)
           sleeps  == limit_reached(times, rate_limit)
           wait    == IF sleeps THEN wait_time(times, current_time) ELSE 0
       IN  /\ requests_times' = times
           /\ calls' = Append(calls, [at |-> current_time, slept |-> sleeps,
                                      wait_time |-> wait])
           /\ IF wait < 0
              THEN /\ exit_status' = "ValueError"
                   /\ UNCHANGED <<now, sent>>
              ELSE /\ \E late \in 0 .. MaxOversleep :
                         /\ (~sleeps => late = 0)
                         /\ now' = current_time + wait + late
                   /\ sent' = Append(sent, now')
                   /\ \E status \in {200, 403} :
                         exit_status' = IF status = 403 THEN "403"
                                        ELSE "running"
    /\ UNCHANGED <<outsideLimiter, rate_limit>>

\* time passes between two calls
Tick ==
    /\ exit_status = "running"
    /\ \E d \in TickSteps :
          /\ now + d <= MaxClock
          /\ now' = now + d
    /\ UNCHANGED <<outsideLimiter, limiterVars, exit_status>>

\* api_rate_limiter = ApiRateLimiter(args.rate_limit)
InitLimiter ==
    /\ nodes = << >>
    /\ ret = NoRet
    /\ fs = << >>
    /\ now = 0
    /\ utc_offset = 0
    /\ SKIP_TIMESTAMPS = FALSE
    /\ rate_limit \in 1 .. MaxLimit
    /\ requests_times = << >>
    /\ sent = << >>
    /\ calls = << >>
    /\ ListingIdle
    /\ ScriptIdle
    /\ exit_status = "running"

NextLimiter ==
    \/ ApiGetBytes
    \/ Tick

SpecLimiter == InitLimiter /\ [][NextLimiter]_vars

----------------------------------------------------------------------------
(* api_get_listing                                                         *)

COUNT == 50

\* sequences over S of length at most n
RECURSIVE SeqsUpTo(_, _)
SeqsUpTo(S, n) ==
    IF n = 0 THEN {<< >>}
    ELSE LET shorter == SeqsUpTo(S, n - 1)
         IN  shorter \cup {Append(q, x) : q \in shorter, x \in S}

\* what the server may answer: any declared total with any page of items
Responses == [total : 0 .. MaxTotal, data : SeqsUpTo(Items, MaxPage)]

request_offset_zero(res) == [count |-> COUNT, offset |-> 0]

\* line 414: api_get_bytes(path, count=count, offset=len(result))
request(res) == [count |-> COUNT, offset |-> Len(res)]

\* line 412: the loop test
loop_test(tot, res) == tot > Len(res)

\* lines 407-410, and the first evaluation of the loop test
InitListing ==
    /\ nodes = << >>
    /\ ret = NoRet
    /\ fs = << >>
    /\ now = 0
    /\ utc_offset = 0
    /\ SKIP_TIMESTAMPS = FALSE
    /\ LimiterIdle
    /\ total = COUNT
    /\ result = << >>
    /\ l_pc = IF loop_test(COUNT, << >>) THEN "loop" ELSE "returned"
    /\ requests = << >>
    /\ responses = << >>
    /\ truncated = FALSE
    /\ ScriptIdle
    /\ exit_status = "running"

\* one iteration of the while loop (lines 413-418) followed by the loop
\* test; the response is whatever the server sends
ListingIteration ==
    /\ l_pc = "loop"
    /\ \E response \in Responses :
          /\ Len(result) + Len(response.data) <= MaxItems
          /\ total' = response.total
          /\ result' = result \o response.data
          /\ l_pc' = IF loop_test(total', result') THEN "loop" ELSE "returned"
          /\ IF Len(requests) < MaxLog
             THEN /\ requests' = Append(requests, request(result))
                  /\ responses' = Append(responses, response)
                  /\ UNCHANGED truncated
             ELSE /\ truncated' = TRUE
                  /\ UNCHANGED <<requests, responses>>
    /\ UNCHANGED <<outsideListing, exit_status>>

\* api_get_bytes exits on 403; urlopen, json.loads or data['total'] raise
ListingFails ==
    /\ l_pc = "loop"
    /\ l_pc' = "failed"
    /\ \E how \in {"403", "exception"} : exit_status' = how
    /\ UNCHANGED <<outsideListing, total, result, requests, responses,
                   truncated>>

NextListing ==
    \/ ListingIteration
    \/ ListingFails

SpecListing == InitListing /\ [][NextListing]_vars

\* the loop is sequential code: while it is in the loop, it iterates
FairSpecListing == SpecListing /\ WF_vars(ListingIteration)

----------------------------------------------------------------------------
(* Python dicts: a Seq of <<key, value>> pairs in insertion order          *)

Keys(d) == {d[i][1] : i \in 1 .. Len(d)}

\* d.get(k): None when the key is absent
Get(d, k) ==
    IF k \in Keys(d)
    THEN d[CHOOSE i \in 1 .. Len(d) : d[i][1] = k][2]
    ELSE None

\* d[k] = v
Put(d, k, v) ==
    IF k \in Keys(d)
    THEN [i \in 1 .. Len(d) |-> IF d[i][1] = k THEN <<k, v>> ELSE d[i]]
    ELSE Append(d, <<k, v>>)

\* list(d.values())
Values(d) == [i \in 1 .. Len(d) |-> d[i][2]]

RECURSIVE UpdateFrom(_, _, _)
UpdateFrom(d, e, i) ==
    IF i > Len(e) THEN d ELSE UpdateFrom(Put(d, e[i][1], e[i][2]), e, i + 1)

\* d.update(e)
Update(d, e) == UpdateFrom(d, e, 1)

----------------------------------------------------------------------------
(* Start of the script: HEADERS and HEADERS_NO_TOKEN (lines 192-210).      *)
(* A header given on the command line is a string, here a Seq of symbols;  *)
(* ":" is the colon, the other symbols stand for runs of other characters. *)

HeaderStrings ==
    { <<"Authorization", ":", "v">>,     \* "Authorization:v"
      <<"authorization", ":", "w">>,     \* "authorization:w"
      <<"x", ":", "v", ":", "w">>,       \* "x:v:w"
      <<"x">> }                          \* "x", no colon

TOKEN == <<"Token ", "TOKEN">>
USER_AGENT == <<"BookStack exporter">>
CONTENT_TYPE == <<"application/json; charset=utf-8">>

\* position of the first ":" of a header string, 0 when it has none
ColonAt(header) ==
    IF \E i \in 1 .. Len(header) : header[i] = ":"
    THEN CHOOSE i \in 1 .. Len(header) :
             header[i] = ":" /\ \A j \in 1 .. i - 1 : header[j] # ":"
    ELSE 0

\* header.split(':', 1)
split_header(header) ==
    IF ColonAt(header) = 0 THEN <<header>>
    ELSE <<SubSeq(header, 1, ColonAt(header) - 1),
           SubSeq(header, ColonAt(header) + 1, Len(header))>>

\* lines 195-199
DEFAULT_HEADERS ==
    << <<(<<"Content-Type">>), CONTENT_TYPE>>,
       <<(<<"Authorization">>), TOKEN>>,
       <<(<<"User-Agent">>), USER_AGENT>> >>

\* lines 200-203
DEFAULT_HEADERS_NO_TOKEN ==
    << <<(<<"Content-Type">>), CONTENT_TYPE>>,
       <<(<<"User-Agent">>), USER_AGENT>> >>

RECURSIVE with_additional_headers(_, _, _)
\* the loop of lines 205-210 over args.additional_headers from the i-th on,
\* applied to one of the two dicts; it stops at a header without ":"
with_additional_headers(d, additional, i) ==
    IF i > Len(additional) THEN d
    ELSE IF Len(split_header(additional[i])) < 2 THEN d
    ELSE with_additional_headers(
             Put(d, split_header(additional[i])[1],
                    split_header(additional[i])[2]),
             additional, i + 1)

\* line 208: some header has no ":" and ValueError ends the script
improper_header(additional) ==
    \E i \in 1 .. Len(additional) : Len(split_header(additional[i])) < 2

\* the state when the catalog building starts (or the script has died of
\* an improper header), for a command line drawn from argset and a local
\* zone drawn from offsets
InitScriptIn(argset, offsets) ==
    /\ nodes = << >>
    /\ ret = NoRet
    /\ fs = << >>
    /\ now = 1
    /\ utc_offset \in offsets
    /\ runs = << >>
    /\ args \in argset
    /\ SKIP_TIMESTAMPS = args.force_update_files
    /\ rate_limit = 180
    /\ requests_times = << >>
    /\ sent = << >>
    /\ calls = << >>
    /\ ListingIdle
    /\ HEADERS = with_additional_headers(
                     DEFAULT_HEADERS, args.additional_headers, 1)
    /\ HEADERS_NO_TOKEN = with_additional_headers(
                     DEFAULT_HEADERS_NO_TOKEN, args.additional_headers, 1)
    /\ pc = IF improper_header(args.additional_headers)
            THEN "exit" ELSE "shelves"
    /\ exit_status = IF improper_header(args.additional_headers)
                     THEN "ValueError" ELSE "running"
    /\ shelves = << >> /\ books = << >> /\ chapters = << >>
    /\ pages = << >> /\ pages_not_in_chapter = << >>
    /\ attachments = << >> /\ images = << >>
    /\ seen = << >>
    /\ lvl_i = 0 /\ files = << >> /\ doc_i = 0
    /\ EXPORT_PAGES_NOT_IN_CHAPTER = FALSE
    /\ passes = << >> /\ http = << >> /\ dirs = {}

\* the same, in the zone of UTC
InitScript(argset) == InitScriptIn(argset, {0})

----------------------------------------------------------------------------
(* Gathering data from the API (lines 568-678).  One action handles one    *)
(* entry of a listing; the entries are whatever the remote holds.          *)

Entry(kind, id, book_id, chapter_id, uploaded_to, node) ==
    [kind |-> kind, id |-> id, book_id |-> book_id,
     chapter_id |-> chapter_id, uploaded_to |-> uploaded_to, node |-> node]

\* AttachedFile.__init__ (lines 319-332): a parentless Node with three
\* more fields
AttachedFileInit(h, name, parent_id, url, path, node_id, ts) ==
    LET h1 == NodeInit(h, name, None, node_id, ts)
    IN  [h1 EXCEPT ![Len(h1)].attached =
                       [parent_id |-> parent_id, url |-> url, path |-> path]]

\* the entries a listing may hold for books
BookEntries ==
    [id : BookIds, name : EntryNames,
     updated_at : {ApiTimestamp(t) : t \in EntryTimes}]

RECURSIVE shelf_books(_, _, _, _, _)
\* the loop of lines 584-591 over a shelf's books from the i-th on; the
\* result is <<heap, books>>
shelf_books(h, bks, shelf, listed, i) ==
    IF i > Len(listed) THEN <<h, bks>>
    ELSE shelf_books(
             NodeInit(h, listed[i].name, shelf, listed[i].id,
                      api_timestamp_string_to_datetime(listed[i].updated_at)),
             Put(bks, listed[i].id, Len(h) + 1),
             shelf, listed, i + 1)

\* lines 570-591: one shelf of the shelves listing, with its detail record
\* (which may have no 'books')
BuildShelf ==
    /\ pc = "shelves"
    /\ \E id \in ShelfIds \ Keys(shelves), name \in EntryNames,
          t \in EntryTimes, has_books \in BOOLEAN,
          listed \in SeqsUpTo({e \in BookEntries : e.id \notin Keys(books)},
                              1) :
          LET h1    == NodeInit(nodes, name, None, id,
                           api_timestamp_string_to_datetime(ApiTimestamp(t)))
              shelf == Len(h1)
              built == IF ~has_books THEN <<h1, books>>
                       ELSE shelf_books(h1, books, shelf, listed, 1)
          IN  /\ (~has_books => listed = << >>)
              /\ nodes' = built[1]
              /\ books' = built[2]
              /\ shelves' = Put(shelves, id, shelf)
              /\ seen' = Append(seen, Entry("shelf", id, 0, 0, 0, shelf))
    /\ UNCHANGED <<outsideBuilder, pc, chapters, pages, pages_not_in_chapter,
                   attachments, images, exit_status>>

\* lines 595-606: one entry of the books listing that no shelf has claimed
\* (an entry whose id is in books already is passed over); the listings
\* are taken to come in increasing order of id
BuildBook ==
    /\ pc = "books"
    /\ \E id \in BookIds \ Keys(books), name \in EntryNames, t \in EntryTimes :
          /\ \A k \in Keys(books) : k < id
          /\ nodes' = NodeInit(nodes, name, None, id,
                          api_timestamp_string_to_datetime(ApiTimestamp(t)))
          /\ books' = Put(books, id, Len(nodes) + 1)
          /\ seen' = Append(seen, Entry("book", id, 0, 0, 0, Len(nodes) + 1))
    /\ UNCHANGED <<outsideBuilder, pc, shelves, chapters, pages,
                   pages_not_in_chapter, attachments, images, exit_status>>

\* lines 610-618: one entry of the chapters listing
BuildChapter ==
    /\ pc = "chapters"
    /\ \E id \in ChapterIds \ Keys(chapters), book_id \in BookIds,
          name \in EntryNames, t \in EntryTimes :
          /\ nodes' = NodeInit(nodes, name, Get(books, book_id), id,
                          api_timestamp_string_to_datetime(ApiTimestamp(t)))
          /\ chapters' = Put(chapters, id, Len(nodes) + 1)
          /\ seen' = Append(seen,
                         Entry("chapter", id, book_id, 0, 0, Len(nodes) + 1))
    /\ UNCHANGED <<outsideBuilder, pc, shelves, books, pages,
                   pages_not_in_chapter, attachments, images, exit_status>>

not_in_chapter_never(chs, parent_id) == FALSE

\* line 628: parent_id not in chapters
not_in_chapter(chs, parent_id) == parent_id \notin Keys(chs)

\* lines 622-646: one entry of the pages listing; chapter_id 0 is what the
\* API gives for a page outside every chapter.  books[...] of a missing key
\* raises KeyError, which ends the script.
BuildPage ==
    /\ pc = "pages"
    /\ \E id \in PageIds \ Keys(pages), chapter_id \in {0} \cup ChapterIds,
          book_id \in BookIds, name \in EntryNames, t \in EntryTimes :
          LET ts == api_timestamp_string_to_datetime(ApiTimestamp(t))
              page == Len(nodes) + 1
          IN  /\ \A k \in Keys(pages) : k < id
              /\ IF not_in_chapter(chapters, chapter_id)
                  THEN IF book_id \notin Keys(books)
                       THEN /\ pc' = "exit"
                            /\ exit_status' = "KeyError"
                            /\ seen' = Append(seen,
                                   Entry("page", id, book_id, chapter_id, 0, None))
                            /\ UNCHANGED <<nodes, pages, pages_not_in_chapter>>
                       ELSE /\ nodes' = NodeInit(nodes, name, Get(books, book_id),
                                                 id, ts)
                            /\ pages' = Put(pages, id, page)
                            /\ pages_not_in_chapter' =
                                   Put(pages_not_in_chapter, id, page)
                            /\ seen' = Append(seen,
                                   Entry("page", id, book_id, chapter_id, 0, page))
                            /\ UNCHANGED <<pc, exit_status>>
                  ELSE /\ nodes' = NodeInit(nodes, name, Get(chapters, chapter_id),
                                            id, ts)
                       /\ pages' = Put(pages, id, page)
                       /\ seen' = Append(seen,
                              Entry("page", id, book_id, chapter_id, 0, page))
                       /\ UNCHANGED <<pc, exit_status, pages_not_in_chapter>>
    /\ UNCHANGED <<outsideBuilder, shelves, books, chapters, attachments,
                   images>>

\* lines 651-662: one entry of the attachments listing
BuildAttachment ==
    /\ pc = "attachments"
    /\ \E id \in AttachmentIds \ Keys(attachments), uploaded_to \in PageIds,
          name \in EntryNames, t \in EntryTimes :
          LET all_pages == Update(Update(<< >>, pages), pages_not_in_chapter)
          IN  /\ nodes' = NodeInit(nodes, name, Get(all_pages, uploaded_to), id,
                              api_timestamp_string_to_datetime(ApiTimestamp(t)))
              /\ attachments' = Put(attachments, id, Len(nodes) + 1)
              /\ seen' = Append(seen,
                     Entry("attachment", id, 0, 0, uploaded_to, Len(nodes) + 1))
    /\ UNCHANGED <<outsideBuilder, pc, shelves, books, chapters, pages,
                   pages_not_in_chapter, images, exit_status>>

\* lines 667-678: one entry of the image gallery
BuildImage ==
    /\ pc = "images"
    /\ \E id \in ImageIds \ Keys(images), uploaded_to \in PageIds,
          name \in EntryNames, t \in EntryTimes :
          /\ nodes' = AttachedFileInit(nodes, name, uploaded_to,
                          "image-url", << <<"uploads">>, name >>, id,
                          api_timestamp_string_to_datetime(ApiTimestamp(t)))
          /\ images' = Put(images, id, Len(nodes) + 1)
          /\ seen' = Append(seen,
                 Entry("image", id, 0, 0, uploaded_to, Len(nodes) + 1))
    /\ UNCHANGED <<outsideBuilder, pc, shelves, books, chapters, pages,
                   pages_not_in_chapter, attachments, exit_status>>

\* the phase after a listing is exhausted (lines 593, 608, 620, 648, 664,
\* 684): attachments and images are gathered only when asked for
phase_after(phase, a) ==
    CASE phase = "shelves" -> "books"
      [] phase = "books" -> "chapters"
      [] phase = "chapters" -> "pages"
      [] phase = "pages" ->
            IF ~a.dont_export_attachments THEN "attachments"
            ELSE IF a.images THEN "images" ELSE "levels"
      [] phase = "attachments" -> IF a.images THEN "images" ELSE "levels"
      [] phase = "images" -> "levels"

BuildPhases == {"shelves", "books", "chapters", "pages", "attachments",
                "images"}

\* a listing has no further entry
EndListing ==
    /\ pc \in BuildPhases
    /\ pc' = phase_after(pc, args)
    /\ UNCHANGED <<nodes, outsideBuilder, catalogVars, exit_status>>

\* a request of the gathering fails (api_get_bytes exits on 403, urlopen or
\* json.loads raise): the script ends
GatheringFails ==
    /\ pc \in BuildPhases
    /\ pc' = "exit"
    /\ exit_status' = "request_failed"
    /\ UNCHANGED <<nodes, outsideBuilder, catalogVars>>

----------------------------------------------------------------------------
(* Exporting (lines 475-561 and 684-709)                                   *)

LEVELS == {"pages", "chapters", "books"}

\* FORMATS: format name -> file extension
FORMATS(v_format) ==
    CASE v_format = "markdown" -> "md"
      [] v_format = "plaintext" -> "txt"
      [] v_format = "pdf" -> "pdf"
      [] v_format = "html" -> "html"
      [] v_format = "zip" -> "zip"

RECURSIVE get_path(_, _)
\* Node.get_path: the names of the ancestors, root first, after ".".
\* A path is a Seq of segments, a segment a Seq of characters.
get_path(h, self) ==
    IF h[self].parent = None THEN << <<".">> >>
    ELSE Append(get_path(h, h[self].parent), h[h[self].parent].name)

FS_PATH == << <<"FS_PATH">> >>

\* lines 481-482: FS_PATH/<get_path>/<name>.<extension>
doc_path(h, document, v_format) ==
    FS_PATH \o get_path(h, document)
        \o << h[document].name \o <<".", FORMATS(v_format)>> >>

Upper(sym) == IF sym = "authorization" THEN "Authorization" ELSE sym
Lower(sym) == IF sym = "Authorization" THEN "authorization" ELSE sym

\* str.capitalize() of a header name
Capitalize(name) ==
    [i \in 1 .. Len(name) |-> IF i = 1 THEN Upper(name[i]) ELSE Lower(name[i])]

RECURSIVE RequestHeadersFrom(_, _, _)
RequestHeadersFrom(acc, d, i) ==
    IF i > Len(d) THEN acc
    ELSE RequestHeadersFrom(Put(acc, Capitalize(d[i][1]), d[i][2]), d, i + 1)

\* Request(url, headers=d): urllib keeps each header under its capitalized
\* name, a later one replacing an earlier one of the same name
RequestHeaders(d) == RequestHeadersFrom(<< >>, d, 1)

\* what the remote renders for one node, level and format
ExportBytes(level, node_id, v_format) ==
    [level |-> level, id |-> node_id, format |-> v_format]

\* open(path, 'wb') ... file.write(data), at the present time
Written(disk, path, data, time) ==
    [q \in DOMAIN disk \cup {path} |->
        IF q = path THEN [mtime |-> time, data |-> data] ELSE disk[q]]

RECURSIVE export_formats(_, _, _, _, _, _, _, _)
\* the loop of lines 480-494 over `formats` from the i-th on, for one
\* document; the request of the format numbered fails_at fails (none fails
\* when fails_at = 0).  The result is [fs, http, failed].
export_formats(disk, log, h, document, level, fmts, i, fails_at) ==
    IF i > Len(fmts) THEN [fs |-> disk, http |-> log, failed |-> FALSE]
    ELSE LET path == doc_path(h, document, fmts[i])
             req  == [url |-> <<level, h[document].node_id, "export", fmts[i]>>,
                      external |-> FALSE,
                      headers |-> RequestHeaders(HEADERS)]
         IN  IF ~check_if_update_needed(disk, SKIP_TIMESTAMPS, utc_offset,
                                        path, h, document)
             THEN export_formats(disk, log, h, document, level, fmts, i + 1,
                                 fails_at)
             ELSE IF fails_at = i
             THEN [fs |-> disk, http |-> Append(log, req), failed |-> TRUE]
             ELSE export_formats(
                      Written(disk, path,
                              ExportBytes(level, h[document].node_id, fmts[i]),
                              now),
                      Append(log, req), h, document, level, fmts, i + 1,
                      fails_at)

outsideDriver == <<nodes, ret, now, utc_offset, SKIP_TIMESTAMPS, limiterVars,
                   listingVars, configVars, catalogVars>>

\* the catalog a level names (lines 688-694)
level_catalog(lvl) ==
    CASE lvl = "pages" -> pages
      [] lvl = "chapters" -> chapters
      [] lvl = "books" -> books

sets_extra_pass_for_pages(lvl) == lvl = "pages"

\* line 690-692: the level that asks for the pass over pages_not_in_chapter
sets_extra_pass(lvl) == lvl = "chapters"

\* lines 687-696: the level loop takes the next level and calls export_doc
NextLevel ==
    /\ pc = "levels"
    /\ doc_i = Len(files)
    /\ lvl_i < Len(args.level)
    /\ lvl_i' = lvl_i + 1
    /\ files' = Values(level_catalog(args.level[lvl_i']))
    /\ EXPORT_PAGES_NOT_IN_CHAPTER' =
           (EXPORT_PAGES_NOT_IN_CHAPTER \/ sets_extra_pass(args.level[lvl_i']))
    /\ passes' = Append(passes, [level |-> args.level[lvl_i'],
                                 documents |-> files'])
    /\ doc_i' = 0
    /\ UNCHANGED <<outsideDriver, fs, pc, http, dirs, exit_status>>

\* lines 477-494: export_doc handles one document, in every format
ExportDoc ==
    /\ pc \in {"levels", "extra"}
    /\ doc_i < Len(files)
    /\ \E fails_at \in 0 .. Len(args.formats) :
          LET document == files[doc_i + 1]
              level == IF pc = "extra" THEN "pages" ELSE args.level[lvl_i]
              done  == export_formats(fs, http, nodes, document, level,
                                      args.formats, 1, fails_at)
          IN  /\ dirs' = dirs \cup {FS_PATH \o get_path(nodes, document)}
              /\ fs' = done.fs
              /\ http' = done.http
              /\ (fails_at # 0 => done.failed)
              /\ IF done.failed
                 THEN /\ pc' = "exit"
                      /\ exit_status' = "request_failed"
                      /\ UNCHANGED doc_i
                 ELSE /\ doc_i' = doc_i + 1
                      /\ UNCHANGED <<pc, exit_status>>
    /\ UNCHANGED <<outsideDriver, lvl_i, files, EXPORT_PAGES_NOT_IN_CHAPTER,
                   passes>>

\* lines 698-700: after the level loop, the pass over pages_not_in_chapter
ExtraPass ==
    /\ pc = "levels"
    /\ doc_i = Len(files)
    /\ lvl_i = Len(args.level)
    /\ EXPORT_PAGES_NOT_IN_CHAPTER
    /\ pc' = "extra"
    /\ files' = Values(pages_not_in_chapter)
    /\ passes' = Append(passes, [level |-> "pages", documents |-> files'])
    /\ doc_i' = 0
    /\ UNCHANGED <<outsideDriver, fs, lvl_i, EXPORT_PAGES_NOT_IN_CHAPTER,
                   http, dirs, exit_status>>

\* the documents are done: the level loop is over and no extra pass is
\* due, or the extra pass is over
DocsDone ==
    \/ /\ pc = "levels"
       /\ lvl_i = Len(args.level)
       /\ ~EXPORT_PAGES_NOT_IN_CHAPTER
    \/ pc = "extra"

\* lines 702-709: what follows the present stage
stage_after(stage, a) ==
    IF stage \in {"levels", "extra"} /\ ~a.dont_export_attachments
    THEN "export_attachments"
    ELSE IF stage # "export_images" /\ a.images
    THEN "export_images"
    ELSE "finished"

\* the present stage has handled its last item: export_attachments or
\* export_images is called, or the script finishes with sys.exit(0)
NextStage ==
    /\ DocsDone \/ pc \in {"export_attachments", "export_images"}
    /\ doc_i = Len(files)
    /\ pc' = stage_after(pc, args)
    /\ files' = CASE pc' = "export_attachments" -> Values(attachments)
                  [] pc' = "export_images" -> Values(images)
                  [] pc' = "finished" -> files
    /\ doc_i' = 0
    /\ exit_status' = IF pc' = "finished" THEN "0" ELSE exit_status
    /\ UNCHANGED <<outsideDriver, fs, lvl_i, EXPORT_PAGES_NOT_IN_CHAPTER,
                   passes, http, dirs>>

\* lines 501-508: where an attachment is saved
attachment_dir(h, attachment) ==
    IF h[attachment].parent = None
    THEN << <<"__ATTACHMENTS_FROM_DELETED_PAGES__">> >> \o get_path(h, attachment)
    ELSE get_path(h, attachment)

attachment_path(h, attachment) ==
    FS_PATH \o attachment_dir(h, attachment) \o <<h[attachment].name>>

external_headers_with_token == HEADERS

\* line 523: the headers given to the request for an external URL
external_headers == HEADERS_NO_TOKEN

\* lines 499-539: export_attachments handles one attachment.  The remote
\* says whether the content is a URL or base64 data; a request may fail.
ExportAttachment ==
    /\ pc = "export_attachments"
    /\ doc_i < Len(files)
    /\ \E content \in {"url", "base64"},
          outcome \in {"ok", "api_fails", "url_raises", "url_status"} :
          LET attachment == files[doc_i + 1]
              path == attachment_path(nodes, attachment)
              api  == [url |-> <<"attachments", nodes[attachment].node_id>>,
                       external |-> FALSE,
                       headers |-> RequestHeaders(HEADERS)]
              ext  == [url |-> <<"content-url", nodes[attachment].node_id>>,
                       external |-> TRUE,
                       headers |-> RequestHeaders(external_headers)]
              data == [level |-> "attachments",
                       id |-> nodes[attachment].node_id, format |-> content]
          IN  /\ dirs' = dirs \cup {FS_PATH \o attachment_dir(nodes, attachment)}
              /\ IF ~check_if_update_needed(fs, SKIP_TIMESTAMPS, utc_offset,
                                            path, nodes, attachment)
                 THEN /\ content = "base64" /\ outcome = "ok"
                      /\ doc_i' = doc_i + 1
                      /\ UNCHANGED <<fs, http, pc, exit_status>>
                 ELSE IF outcome = "api_fails"
                 THEN /\ content = "base64"
                      /\ http' = Append(http, api)
                      /\ pc' = "exit"
                      /\ exit_status' = "request_failed"
                      /\ UNCHANGED <<fs, doc_i>>
                 ELSE IF content = "base64"
                 THEN /\ outcome = "ok"
                      /\ http' = Append(http, api)
                      /\ fs' = Written(fs, path, data, now)
                      /\ doc_i' = doc_i + 1
                      /\ UNCHANGED <<pc, exit_status>>
                 ELSE IF args.dont_export_external_attachments
                 THEN /\ outcome = "ok"
                      /\ http' = Append(http, api)
                      /\ doc_i' = doc_i + 1
                      /\ UNCHANGED <<fs, pc, exit_status>>
                 ELSE /\ http' = http \o <<api, ext>>
                      /\ CASE outcome = "ok" ->
                                /\ fs' = Written(fs, path, data, now)
                                /\ doc_i' = doc_i + 1
                                /\ UNCHANGED <<pc, exit_status>>
                           [] outcome = "url_raises" ->
                                /\ pc' = "exit"
                                /\ exit_status' = "request_failed"
                                /\ UNCHANGED <<fs, doc_i>>
                           [] outcome = "url_status" ->
                                /\ pc' = "exit"
                                /\ exit_status' = "status>=300"
                                /\ UNCHANGED <<fs, doc_i>>
    /\ UNCHANGED <<outsideDriver, lvl_i, files, EXPORT_PAGES_NOT_IN_CHAPTER,
                   passes>>

\* image_translate_path: FS_PATH/<images_dir><img_path>
image_translate_path(img_path) == FS_PATH \o << <<"images_dir">> >> \o img_path

\* lines 543-561: export_images handles one image.  URLError / HTTPError of
\* the download is caught: the script exits with 1, or passes the image
\* over when --skip-broken-image-links is given.
ExportImage ==
    /\ pc = "export_images"
    /\ doc_i < Len(files)
    /\ \E outcome \in {"ok", "raises"} :
          LET img  == files[doc_i + 1]
              path == image_translate_path(nodes[img].attached.path)
              req  == [url |-> <<nodes[img].attached.url, nodes[img].node_id>>,
                       external |-> FALSE,
                       headers |-> RequestHeaders(HEADERS)]
              data == [level |-> "image-gallery", id |-> nodes[img].node_id,
                       format |-> "image"]
          IN  /\ dirs' = dirs \cup {SubSeq(path, 1, Len(path) - 1)}
              /\ IF ~check_if_update_needed(fs, SKIP_TIMESTAMPS, utc_offset,
                                            path, nodes, img)
                 THEN /\ outcome = "ok"
                      /\ doc_i' = doc_i + 1
                      /\ UNCHANGED <<fs, http, pc, exit_status>>
                 ELSE /\ http' = Append(http, req)
                      /\ IF outcome = "ok"
                         THEN /\ fs' = Written(fs, path, data, now)
                              /\ doc_i' = doc_i + 1
                              /\ UNCHANGED <<pc, exit_status>>
                         ELSE IF ~args.skip_broken_image_links
                         THEN /\ pc' = "exit"
                              /\ exit_status' = "1"
                              /\ UNCHANGED <<fs, doc_i>>
                         ELSE /\ doc_i' = doc_i + 1
                              /\ UNCHANGED <<fs, pc, exit_status>>
    /\ UNCHANGED <<outsideDriver, lvl_i, files, EXPORT_PAGES_NOT_IN_CHAPTER,
                   passes>>

----------------------------------------------------------------------------
(* Specification SpecCatalog: the whole script, from the first listing to  *)
(* sys.exit, for the command lines of CatalogArgs.                         *)

LevelLists == SeqsUpTo(LEVELS, MaxLevels) \ {<< >>}

CatalogArgs ==
    [level : LevelLists,
     formats : {<<"markdown">>},
     force_update_files : {FALSE},
     dont_export_attachments : BOOLEAN,
     dont_export_external_attachments : {FALSE},
     images : {FALSE},
     skip_broken_image_links : {FALSE},
     additional_headers : {<< >>}]

InitCatalog == InitScript(CatalogArgs)

NextCatalog ==
    \/ BuildShelf
    \/ BuildBook
    \/ BuildChapter
    \/ BuildPage
    \/ BuildAttachment
    \/ EndListing
    \/ GatheringFails
    \/ NextLevel
    \/ ExportDoc
    \/ ExtraPass
    \/ NextStage
    \/ ExportAttachment

SpecCatalog == InitCatalog /\ [][NextCatalog]_vars

----------------------------------------------------------------------------
(* Specification SpecAttach: the script on a remote without shelves and    *)
(* books, exporting pages, attachments and images, for every list of       *)
(* additional headers.                                                     *)

AttachArgs ==
    [level : {<<"pages">>},
     formats : {<<"markdown">>},
     force_update_files : {FALSE},
     dont_export_attachments : {FALSE},
     dont_export_external_attachments : BOOLEAN,
     images : BOOLEAN,
     skip_broken_image_links : BOOLEAN,
     additional_headers : SeqsUpTo(HeaderStrings, MaxHeaders)]

InitAttach == InitScript(AttachArgs)

NextAttach ==
    \/ BuildChapter
    \/ BuildPage
    \/ BuildAttachment
    \/ BuildImage
    \/ EndListing
    \/ GatheringFails
    \/ NextLevel
    \/ ExportDoc
    \/ NextStage
    \/ ExportAttachment
    \/ ExportImage

SpecAttach == InitAttach /\ [][NextAttach]_vars

----------------------------------------------------------------------------
(* Specification SpecRerun: the script run again and again with the same   *)
(* command line on a remote whose content is not edited, in a local zone   *)
(* west of, at or east of UTC.                                             *)

RerunOffsets == TzOffsets \cup {-1}
RerunLevels == {<<"pages">>, <<"chapters">>}

RerunArgs ==
    [level : RerunLevels,
     formats : {<<"markdown">>},
     force_update_files : {FALSE},
     dont_export_attachments : {TRUE},
     dont_export_external_attachments : {FALSE},
     images : {FALSE},
     skip_broken_image_links : {FALSE},
     additional_headers : {<< >>}]

InitRerun == InitScriptIn(RerunArgs, RerunOffsets)

\* The script has ended after building its catalogs and is started again,
\* later.  The remote answers the listings as before, so the new process
\* builds the same catalogs; the files and directories are as the earlier
\* run left them.
Rerun ==
    /\ pc \in {"finished", "exit"}
    /\ passes # << >>
    /\ Len(runs) < MaxRuns
    /\ runs' = Append(runs, [status |-> exit_status, fs |-> fs])
    /\ now' = now + 1
    /\ pc' = "levels"
    /\ exit_status' = "running"
    /\ lvl_i' = 0 /\ files' = << >> /\ doc_i' = 0
    /\ EXPORT_PAGES_NOT_IN_CHAPTER' = FALSE
    /\ passes' = << >> /\ http' = << >>
    /\ UNCHANGED <<nodes, ret, fs, utc_offset, SKIP_TIMESTAMPS, limiterVars,
                   listingVars, args, HEADERS, HEADERS_NO_TOKEN, catalogVars,
                   dirs>>

NextRerun ==
    \/ BuildShelf
    \/ BuildBook
    \/ BuildChapter
    \/ BuildPage
    \/ EndListing
    \/ GatheringFails
    \/ NextLevel
    \/ ExportDoc
    \/ ExtraPass
    \/ NextStage
    \/ Rerun

SpecRerun == InitRerun /\ [][NextRerun]_vars

----------------------------------------------------------------------------
(* Subtrees, read off the parent references (not the children lists)       *)

RECURSIVE IsInSubtree(_, _, _)
IsInSubtree(h, root, m) ==
    \/ m = root
    \/ h[m].parent # None /\ IsInSubtree(h, root, h[m].parent)

Subtree(h, root) == {m \in 1 .. Len(h) : IsInSubtree(h, root, m)}

NewerThan(h, root, t) ==
    {m \in Subtree(h, root) : h[m].last_edit_timestamp > t}

\* C1: for every node N of a tree built by construction and every timestamp
\* t, changed_since(t) is the number of nodes of N's subtree (N included)
\* edited strictly after t; it is N's own 0/1 plus the sum over N's
\* children; a node edited exactly at t is not counted; and the count does
\* not decrease when t decreases.
ChangedSinceCountsSubtree ==
    /\ \A n \in 1 .. Len(nodes), t \in Times :
          /\ changed_since(nodes, n, t) = Cardinality(NewerThan(nodes, n, t))
          /\ changed_since(nodes, n, t)
               = (IF nodes[n].last_edit_timestamp > t THEN 1 ELSE 0)
                 + children_changed_since(nodes, nodes[n].children, 1, t)
          /\ changed_since(nodes, n, nodes[n].last_edit_timestamp)
               = Cardinality(NewerThan(nodes, n, nodes[n].last_edit_timestamp)
                             \ {n})
          /\ (t - 1) \in Times =>
                 changed_since(nodes, n, t - 1) >= changed_since(nodes, n, t)
    /\ ret.op = "changed_since" =>
          ret.result = Cardinality(NewerThan(nodes, ret.node, ret.timestamp))

\* a call on a three-level subtree that counts two nodes and leaves out one
\* edited exactly at the timestamp
ChangedSinceWitness ==
    /\ ret.op = "changed_since"
    /\ ret.result = 2
    /\ Cardinality(Subtree(nodes, ret.node)) = 3
    /\ \E m \in Subtree(nodes, ret.node) :
          /\ nodes[m].last_edit_timestamp = ret.timestamp
          /\ nodes[m].parent # None
          /\ nodes[m].parent # ret.node

\* C2: check_if_update_needed returns true iff the force flag is set, or no
\* file is at the path, or some node of the subtree was edited (an instant,
\* given by the API in UTC) strictly after the file's modification instant.
UpdateNeededIffStale ==
    ret.op = "check_if_update_needed" =>
        ret.result =
            (\/ SKIP_TIMESTAMPS
             \/ ret.path \notin DOMAIN fs
             \/ \E m \in Subtree(nodes, ret.node) :
                    nodes[m].last_edit_timestamp > fs[ret.path].mtime)

Occurrences(s, x) == Cardinality({i \in 1 .. Len(s) : s[i] = x})

\* C5: after any sequence of constructions, set_parent and add_child calls,
\* every node with parent P occurs exactly once in P's children list, and
\* every entry of P's children list has P as its parent (so registering
\* the same child with the same parent again adds no duplicate).
ParentChildInSync ==
    /\ \A n \in 1 .. Len(nodes) :
          nodes[n].parent # None =>
              Occurrences(nodes[nodes[n].parent].children, n) = 1
    /\ \A p \in 1 .. Len(nodes) :
          \A i \in 1 .. Len(nodes[p].children) :
              nodes[nodes[p].children[i]].parent = p

\* the requests sent in the 60 s interval ending at instant t: (t - 60, t]
SentInWindow(t) ==
    {j \in 1 .. Len(sent) : t - WINDOW < sent[j] /\ sent[j] <= t}

\* C3: the requests actually sent never number more than the rate limit
\* inside any trailing 60-second interval.
RateLimitRespected ==
    \A i \in 1 .. Len(sent) :
        Cardinality(SentInWindow(sent[i])) <= rate_limit

\* C4: from an empty window with limit N, the calls made within one second
\* of the first do not sleep up to the N-th, and the (N+1)-th sleeps for
\* oldest recorded time + 60 - current time, i.e. until 60 s after the
\* first call; a sleep duration is never negative.
BurstThenSleep ==
    /\ \A k \in 1 .. Len(calls) :
          /\ calls[k].wait_time >= 0
          /\ calls[k].at - calls[1].at <= 1 =>
                /\ k <= rate_limit => ~calls[k].slept /\ sent[k] = calls[k].at
                /\ k = rate_limit + 1 =>
                      /\ calls[k].slept
                      /\ calls[k].wait_time
                           = calls[1].at + WINDOW - calls[k].at
                      /\ sent[k] >= calls[1].at + WINDOW
    /\ exit_status # "ValueError"

\* the (N+1)-th call, made one second after the first, has slept
BurstWitness ==
    /\ rate_limit = 2
    /\ Len(calls) = rate_limit + 1
    /\ Len(sent) = rate_limit + 1
    /\ calls[rate_limit + 1].at = calls[1].at + 1
    /\ calls[rate_limit + 1].slept
    /\ calls[rate_limit + 1].wait_time = 59

RECURSIVE Accumulated(_, _)
\* the data of the first n responses, concatenated
Accumulated(resps, n) ==
    IF n = 0 THEN << >> ELSE Accumulated(resps, n - 1) \o resps[n].data

\* C6: api_get_listing issues at least one request; every request carries
\* page size 50 and the offset = number of items accumulated so far; the
\* total is re-read from each response; it returns at the first response
\* after which the accumulated count is >= that response's total; and the
\* result is the concatenation of the pages in request order.
ListingContract ==
    ~truncated =>
        /\ Len(requests) = Len(responses)
        /\ \A i \in 1 .. Len(requests) :
              /\ requests[i].count = 50
              /\ requests[i].offset = Len(Accumulated(responses, i - 1))
        /\ result = Accumulated(responses, Len(responses))
        /\ responses # << >> => total = responses[Len(responses)].total
        /\ \A i \in 1 .. Len(responses) - 1 :
              Len(Accumulated(responses, i)) < responses[i].total
        /\ l_pc = "returned" =>
              /\ Len(requests) >= 1
              /\ Len(result) >= responses[Len(responses)].total
        /\ (l_pc = "loop" /\ responses # << >>) =>
              Len(result) < responses[Len(responses)].total

\* a listing returned after three requests while the declared total changed
ListingWitness ==
    /\ l_pc = "returned"
    /\ ~truncated
    /\ Len(responses) = 3
    /\ responses[1].total = 3 /\ responses[2].total = 2
    /\ Len(responses[1].data) = 1 /\ responses[2].data = << >>
    /\ result = <<"x", "y">>

\* C7: api_get_listing always terminates (by returning, or by failing).
ListingTerminates == <>(l_pc # "loop")

\* the entry of the pages listing that made page id
PageEntry(id) ==
    CHOOSE e \in Range(seen) : e.kind = "page" /\ e.id = id

\* the export_doc calls of a complete level loop
LevelPasses ==
    [i \in 1 .. Len(args.level) |->
        [level |-> args.level[i],
         documents |-> Values(level_catalog(args.level[i]))]]

\* C8: pages_not_in_chapter holds exactly the catalog pages whose chapter_id
\* is no key of the chapter catalog, each a child of the book its book_id
\* names; every other page is a child of its chapter; and the extra
\* export_doc pass at level 'pages', made after all the level passes, is
\* made over exactly that set iff 'chapters' is among the levels.
CatalogAndExtraPass ==
    /\ Keys(pages_not_in_chapter) \subseteq Keys(pages)
    /\ \A p \in Keys(pages) :
          LET e == PageEntry(p)
              n == Get(pages, p)
          IN  IF e.chapter_id \notin Keys(chapters)
              THEN /\ Get(pages_not_in_chapter, p) = n
                   /\ Get(books, e.book_id) # None
                   /\ nodes[n].parent = Get(books, e.book_id)
                   /\ Occurrences(nodes[nodes[n].parent].children, n) = 1
              ELSE /\ p \notin Keys(pages_not_in_chapter)
                   /\ nodes[n].parent = Get(chapters, e.chapter_id)
                   /\ Occurrences(nodes[nodes[n].parent].children, n) = 1
    /\ Len(passes) > Len(args.level) => pc # "levels"
    /\ pc \in {"extra", "export_attachments", "export_images", "finished"} =>
          passes = LevelPasses
                   \o (IF "chapters" \in Range(args.level)
                       THEN << [level |-> "pages",
                                documents |-> Values(pages_not_in_chapter)] >>
                       ELSE << >>)

\* a finished run of the levels chapters, pages with one page in a chapter
\* and one attached to a book, the latter exported by the extra pass
ExtraPassWitness ==
    /\ pc = "finished"
    /\ args.level = <<"chapters", "pages">>
    /\ Len(passes) = 3
    /\ Keys(pages) = {1, 2}
    /\ Cardinality(Keys(pages_not_in_chapter)) = 1
    /\ passes[3].documents = Values(pages_not_in_chapter)

\* the catalog a kind of entry is recorded in
CatalogOf(kind) ==
    CASE kind = "shelf" -> shelves
      [] kind = "book" -> books
      [] kind = "chapter" -> chapters
      [] kind = "page" -> pages
      [] kind = "attachment" -> attachments
      [] kind = "image" -> images

\* C9: no missing parent reference met while the catalogs are built is
\* fatal: every entry handled is recorded in its catalog and the script
\* does not die of the lookup.
MissingParentNeverFatal ==
    /\ exit_status # "KeyError"
    /\ \A i \in 1 .. Len(seen) :
          /\ seen[i].node # None
          /\ Get(CatalogOf(seen[i].kind), seen[i].id) = seen[i].node

Authorization == <<"Authorization">>

\* C10 as claimed: for every configuration, the request sent to the
\* external URL of an attachment carries no Authorization header.
NoAuthorizationToExternal ==
    \A i \in 1 .. Len(http) :
        http[i].external => Authorization \notin Keys(http[i].headers)

\* the additional headers that urllib sends under the name Authorization
AuthorizationGiven ==
    {k \in 1 .. Len(args.additional_headers) :
        Capitalize(split_header(args.additional_headers[k])[1]) = Authorization}

\* C10 as amended: the request to the external URL carries an Authorization
\* header only if the additional headers give one, and then with a value
\* given there; the token header built from the token file is never sent.
ExternalAuthorizationOnlyIfGiven ==
    \A i \in 1 .. Len(http) :
        http[i].external =>
            /\ Authorization \in Keys(http[i].headers) <=>
                   AuthorizationGiven # {}
            /\ Authorization \in Keys(http[i].headers) =>
                   /\ Get(http[i].headers, Authorization) # TOKEN
                   /\ \E k \in AuthorizationGiven :
                         Get(http[i].headers, Authorization)
                             = split_header(args.additional_headers[k])[2]

\* an external download made with an additional header and no Authorization
ExternalRequestWitness ==
    \E i \in 1 .. Len(http) :
        /\ i > 1
        /\ http[i].external
        /\ <<"x">> \in Keys(http[i].headers)
        /\ Authorization \notin Keys(http[i].headers)
        /\ Authorization \in Keys(http[i - 1].headers)

\* the request is the download of an attachment's external link or of a
\* gallery image
IsLinkDownload(req) == req.external \/ req.url[1] = "image-url"

\* where the file of a link download is saved
DownloadPath(req) ==
    IF req.external
    THEN attachment_path(nodes, Get(attachments, req.url[2]))
    ELSE image_translate_path(nodes[Get(images, req.url[2])].attached.path)

\* C11: for external-link attachments and gallery images alike, a broken
\* link aborts the run when skip-broken-image-links is unset (a download
\* the run went on from has saved its file), and never aborts it when the
\* flag is set (the item is passed over and the run continues).
BrokenLinkTolerance ==
    /\ ~args.skip_broken_image_links =>
          \A i \in 1 .. Len(http) :
              (IsLinkDownload(http[i]) /\ ~(i = Len(http) /\ pc = "exit"))
                  => DownloadPath(http[i]) \in DOMAIN fs
    /\ args.skip_broken_image_links =>
          ~(/\ pc = "exit"
            /\ http # << >>
            /\ IsLinkDownload(http[Len(http)]))

\* the request asks for the export of a document
IsDocExport(req) == Len(req.url) = 4 /\ req.url[3] = "export"

\* where the answer to such a request is saved
DocExportPath(req) ==
    doc_path(nodes, Get(level_catalog(req.url[1]), req.url[2]), req.url[4])

\* C12: with the force flag unset and the remote content not edited, a
\* later run sends no export request for a document file an earlier run
\* (complete or cut short) has written, and after a complete run the next
\* run sends no document export request at all.
RerunIdempotent ==
    runs # << >> =>
        /\ \A i \in 1 .. Len(http) :
              IsDocExport(http[i]) =>
                  DocExportPath(http[i]) \notin DOMAIN runs[Len(runs)].fs
        /\ runs[Len(runs)].status = "0" =>
              \A i \in 1 .. Len(http) : ~IsDocExport(http[i])

\* the requests made for the export of one node at one level in one format
ExportRequests(level, node_id, v_format) ==
    {i \in 1 .. Len(http) :
        /\ IsDocExport(http[i])
        /\ http[i].url = <<level, node_id, "export", v_format>>}

\* C13: in a complete run with the force flag unset that started from an
\* empty directory, the export of every node passed to export_doc has been
\* fetched exactly once per format, and the file at the node's target path
\* holds that node's own export bytes, also when two nodes of a level have
\* the same parent and the same sanitized name.
EveryNodeExportedOnce ==
    (pc = "finished" /\ ~SKIP_TIMESTAMPS /\ runs = << >>) =>
        \A k \in 1 .. Len(passes) :
            \A j \in 1 .. Len(passes[k].documents) :
                \A f \in 1 .. Len(args.formats) :
                    LET document == passes[k].documents[j]
                        level    == passes[k].level
                        node_id  == nodes[document].node_id
                        path     == doc_path(nodes, document, args.formats[f])
                    IN  /\ Cardinality(ExportRequests(
                               level, node_id, args.formats[f])) = 1
                        /\ path \in DOMAIN fs
                        /\ fs[path].data =
                               ExportBytes(level, node_id, args.formats[f])

====
